---- MODULE Spec2Model ----
(***************************************************************************)
(* Prosograph validator (tools/validator.py): the result accumulator, the  *)
(* six semantic rule passes, profile detection and the command-line run.   *)
(*                                                                         *)
(* A document is the tree the loader returns.  An optional key is the      *)
(* empty tuple when the key is absent and a one-element tuple holding the  *)
(* value when it is present.  Strings the code takes apart (the version,   *)
(* language tags) are sequences of one-character strings.                  *)
(***************************************************************************)
EXTENDS Integers, Sequences, FiniteSets, TLC

\* ------------------------------------------------------------ bounds
MaxSegs == 2
MaxToks == 2
MaxT == 2
MaxRefs == 2
MaxSchemaErrs == 1

\* ------------------------------------------------------ optional keys
None == <<>>
Some(v) == <<v>>
Has(o) == o # <<>>
Val(o) == o[1]

\* Python truthiness of dict.get(key) for a string-valued key: absent and
\* the empty string are both falsy.
Truthy(o) == Has(o) /\ Val(o) # ""

RECURSIVE Flatten(_)
Flatten(ss) == IF Len(ss) = 0 THEN <<>> ELSE Head(ss) \o Flatten(Tail(ss))

Range(s) == {s[i] : i \in 1..Len(s)}

When(cond, m) == IF cond THEN <<m>> ELSE <<>>

\* ------------------------------------------------------------ strings
UpperCs == <<"A","B","C","D","E","F","G","H","I","J","K","L","M",
             "N","O","P","Q","R","S","T","U","V","W","X","Y","Z">>
LowerCs == <<"a","b","c","d","e","f","g","h","i","j","k","l","m",
             "n","o","p","q","r","s","t","u","v","w","x","y","z">>

\* str.lower() on one character
LowerChar(c) ==
  IF \E i \in 1..Len(UpperCs) : UpperCs[i] = c
  THEN LowerCs[CHOOSE i \in 1..Len(UpperCs) : UpperCs[i] = c]
  ELSE c

Lower(s) == [i \in 1..Len(s) |-> LowerChar(s[i])]

\* s.split('-')[0]
SplitFirst(s) ==
  LET dashes == {i \in 1..Len(s) : s[i] = "-"}
  IN  IF dashes = {} THEN s
      ELSE SubSeq(s, 1, (CHOOSE i \in dashes : \A j \in dashes : i <= j) - 1)

\* s.startswith(p)
StartsWith(s, p) == Len(s) >= Len(p) /\ SubSeq(s, 1, Len(p)) = p

\* (variant: the subtag is compared as written, without lower())
LangPrefixAsWritten(lang) == IF Len(lang) > 0 THEN SplitFirst(lang) ELSE <<>>

\* lang.split('-')[0].lower() if lang else ''
LangPrefix(lang) == IF Len(lang) > 0 THEN Lower(SplitFirst(lang)) ELSE <<>>

tonal_langs == {<<"t","h">>, <<"z","h">>, <<"v","i">>, <<"y","u","e">>, <<"c","m","n">>}

\* ----------------------------------------------------------- findings
\* One finding of the accumulator.  kind stands for the message template,
\* id, a, b, s for the values the template prints (the entity id, two
\* numbers, a string).  seg and tok are the positions of the segment and
\* token the finding is about (0: none); the code's message does not print
\* them, they only let a property speak of "the errors of this token".
Msg(kind, id, a, b, s, si, ti) ==
  [kind |-> kind, id |-> id, a |-> a, b |-> b, s |-> s, seg |-> si, tok |-> ti]

PlainMsg(kind) == Msg(kind, "", 0, 0, <<>>, 0, 0)

\* dict.get('id', '<unknown>')
IdOrUnknown(o) == IF Has(o) THEN Val(o) ELSE "<unknown>"

\* ------------------------------------------------------ document parts
NoVad == [valence |-> None, arousal |-> None, dominance |-> None]
NoVq == [creak |-> None, breathiness |-> None, nasal |-> None,
         tension |-> None, smile |-> None]

NoSegTracks == [emotion |-> None, prosody |-> FALSE, delivery |-> None,
                voice_quality |-> None, tone |-> None]
NoTokTracks == [emotion |-> None, voice_quality |-> None, tone |-> None]

MkTok(id, t0, t1) ==
  [id |-> id, t0 |-> t0, t1 |-> t1, kind |-> None, tracks |-> NoTokTracks]

MkSeg(id, t0, t1, toks) ==
  [id |-> id, t0 |-> t0, t1 |-> t1, language |-> None,
   tracks |-> NoSegTracks, tokens |-> toks]

V10 == <<"1", ".", "0">>

MkDoc(dur, segs) ==
  [kind |-> "map",
   prosograph |-> [kind |-> "str", s |-> V10],
   audio |-> Some([uri |-> TRUE, duration_s |-> dur]),
   segments |-> segs,
   defaults |-> [language |-> None,
                 style |-> [emotion |-> None, voice_quality |-> None]],
   meta_profile |-> None]

\* doc.get('segments', []) and seg.get('tokens', [])
Segs(d) == IF Has(d.segments) THEN Val(d.segments) ELSE <<>>

\* doc.get('audio', {}).get('duration_s', float('inf')): None is infinity
Duration(d) == IF Has(d.audio) THEN Val(d.audio).duration_s ELSE None

\* ------------------------------------------------- ValidationResult
\* (variant: the new entries go in front)
add_error_in_front(list, msgs) == msgs \o list
add_error(list, msgs) == list \o msgs
add_warning(list, msgs) == list \o msgs
add_info(list, msgs) == list \o msgs

\* ------------------------------------------- _validate_required_fields
VersionSupported(s) == StartsWith(s, <<"1", ".">>)

\* (variant: the audio checks stop at the first that fails)
AudioErrorsFirstOnly(audio) ==
  IF ~audio.uri THEN <<PlainMsg("missing_audio_uri")>>
  ELSE IF ~Has(audio.duration_s) THEN <<PlainMsg("missing_duration_s")>>
  ELSE When(Val(audio.duration_s) <= 0, PlainMsg("duration_s_not_positive"))

AudioErrors(audio) ==
  When(~audio.uri, PlainMsg("missing_audio_uri"))
  \o (IF ~Has(audio.duration_s) THEN <<PlainMsg("missing_duration_s")>>
      ELSE When(Val(audio.duration_s) <= 0, PlainMsg("duration_s_not_positive")))

RequiredErrors(d) ==
  (IF d.prosograph.kind = "absent" THEN <<PlainMsg("missing_prosograph")>>
   ELSE When(~VersionSupported(d.prosograph.s),
             Msg("unsupported_version", "", 0, 0, d.prosograph.s, 0, 0)))
  \o (IF ~Has(d.audio) THEN <<PlainMsg("missing_audio")>>
      ELSE AudioErrors(Val(d.audio)))
  \o When(~Has(d.segments), PlainMsg("missing_segments"))

\* ------------------------------------- _validate_temporal_constraints
\* (variant: the token's end is not compared with the segment's)
TokenTemporalErrorsNoEnd(tok, t0, t1, si, ti) ==
  LET tok_id == IdOrUnknown(tok.id)
  IN  IF ~Has(tok.t0) \/ ~Has(tok.t1)
      THEN <<Msg("token_missing_t0_or_t1", tok_id, 0, 0, <<>>, si, ti)>>
      ELSE When(Val(tok.t0) < t0,
                Msg("token_t0_lt_segment_t0", tok_id, Val(tok.t0), t0, <<>>, si, ti))
           \o When(Val(tok.t1) <= Val(tok.t0),
                Msg("token_t1_le_t0", tok_id, Val(tok.t1), Val(tok.t0), <<>>, si, ti))

TokenTemporalErrors(tok, t0, t1, si, ti) ==
  LET tok_id == IdOrUnknown(tok.id)
  IN  IF ~Has(tok.t0) \/ ~Has(tok.t1)
      THEN <<Msg("token_missing_t0_or_t1", tok_id, 0, 0, <<>>, si, ti)>>
      ELSE LET tok_t0 == Val(tok.t0)
               tok_t1 == Val(tok.t1)
           IN  When(tok_t0 < t0,
                    Msg("token_t0_lt_segment_t0", tok_id, tok_t0, t0, <<>>, si, ti))
               \o When(tok_t1 > t1,
                    Msg("token_t1_gt_segment_t1", tok_id, tok_t1, t1, <<>>, si, ti))
               \o When(tok_t1 <= tok_t0,
                    Msg("token_t1_le_t0", tok_id, tok_t1, tok_t0, <<>>, si, ti))

SegmentTokensTemporal(seg, t0, t1, si) ==
  Flatten([j \in 1..Len(seg.tokens) |->
             TokenTemporalErrors(seg.tokens[j], t0, t1, si, j)])

SegmentTemporalErrors(seg, duration, si) ==
  LET seg_id == IdOrUnknown(seg.id)
  IN  IF ~Has(seg.t0)
      THEN <<Msg("segment_missing_t0", seg_id, 0, 0, <<>>, si, 0)>>
      ELSE IF ~Has(seg.t1)
      THEN <<Msg("segment_missing_t1", seg_id, 0, 0, <<>>, si, 0)>>
      ELSE LET t0 == Val(seg.t0)
               t1 == Val(seg.t1)
           IN  When(t0 < 0, Msg("segment_t0_negative", seg_id, t0, 0, <<>>, si, 0))
               \o When(t1 <= t0,
                       Msg("segment_t1_le_t0", seg_id, t1, t0, <<>>, si, 0))
               \o When(Has(duration) /\ t1 > Val(duration),
                       Msg("segment_t1_gt_duration", seg_id, t1,
                           IF Has(duration) THEN Val(duration) ELSE 0, <<>>, si, 0))
               \o SegmentTokensTemporal(seg, t0, t1, si)

TemporalErrors(d) ==
  Flatten([i \in 1..Len(Segs(d)) |->
             SegmentTemporalErrors(Segs(d)[i], Duration(d), i)])

\* --------------------------------------------- _validate_id_uniqueness
\* "if seg_id:" and "if tok_id:" test truthiness, not presence.
IdGiven(o) == Truthy(o)

RECURSIVE UniqueTokens(_, _, _, _)
UniqueTokens(toks, j, token_ids, si) ==
  IF j > Len(toks) THEN [errs |-> <<>>, token_ids |-> token_ids]
  ELSE LET tok_id == toks[j].id
           here == IF IdGiven(tok_id)
                   THEN When(Val(tok_id) \in token_ids,
                             Msg("duplicate_token_id", Val(tok_id), 0, 0, <<>>, si, j))
                   ELSE <<Msg("token_missing_id", "", 0, 0, <<>>, si, j)>>
           rest == UniqueTokens(toks, j + 1,
                     IF IdGiven(tok_id) THEN token_ids \cup {Val(tok_id)}
                     ELSE token_ids, si)
       IN  [errs |-> here \o rest.errs, token_ids |-> rest.token_ids]

RECURSIVE UniqueSegments(_, _, _, _)
UniqueSegments(segs, i, segment_ids, token_ids) ==
  IF i > Len(segs)
  THEN [errs |-> <<>>, segment_ids |-> segment_ids, token_ids |-> token_ids]
  ELSE LET seg_id == segs[i].id
           here == IF IdGiven(seg_id)
                   THEN When(Val(seg_id) \in segment_ids,
                             Msg("duplicate_segment_id", Val(seg_id), 0, 0, <<>>, i, 0))
                   ELSE <<Msg("segment_missing_id", "", 0, 0, <<>>, i, 0)>>
           toks == UniqueTokens(segs[i].tokens, 1, token_ids, i)
           rest == UniqueSegments(segs, i + 1,
                     IF IdGiven(seg_id) THEN segment_ids \cup {Val(seg_id)}
                     ELSE segment_ids, toks.token_ids)
       IN  [errs |-> here \o toks.errs \o rest.errs,
            segment_ids |-> rest.segment_ids, token_ids |-> rest.token_ids]

IdUniqueness(d) == UniqueSegments(Segs(d), 1, {}, {})

IdErrors(d) == IdUniqueness(d).errs

\* ------------------------------------------------ _validate_references
\* "if 'id' in tok:" tests presence.
ReferenceTokenIds(d) ==
  UNION {{Val(tok.id) : tok \in {t \in Range(seg.tokens) : Has(t.id)}} :
           seg \in Range(Segs(d))}

SpanErrors(span, token_ids, si) ==
  IF span.kind = "dict" /\ Has(span.token_ids)
  THEN Flatten([k \in 1..Len(Val(span.token_ids)) |->
         When(Val(span.token_ids)[k] \notin token_ids,
              Msg("dangling_emphasis_reference", Val(span.token_ids)[k],
                  0, 0, <<>>, si, 0))])
  ELSE <<>>

SegmentReferenceErrors(seg, token_ids, si) ==
  LET emphasis == IF Has(seg.tracks.delivery)
                  THEN Val(seg.tracks.delivery).emphasis ELSE <<>>
  IN  Flatten([e \in 1..Len(emphasis) |->
                 SpanErrors(emphasis[e].span, token_ids, si)])

ReferenceErrors(d) ==
  Flatten([i \in 1..Len(Segs(d)) |->
             SegmentReferenceErrors(Segs(d)[i], ReferenceTokenIds(d), i)])

\* ---------------------------------------------------- _validate_ranges
\* path is the dotted path of the message, as a tuple of its parts; label
\* is the entity the path starts at.
check_unit(value, label, path, si, ti) ==
  When(Has(value) /\ (Val(value) < 0 \/ Val(value) > 1),
       Msg("not_in_unit_range", label, IF Has(value) THEN Val(value) ELSE 0,
           0, path, si, ti))

check_signed_unit(value, label, path, si, ti) ==
  When(Has(value) /\ (Val(value) < -1 \/ Val(value) > 1),
       Msg("not_in_signed_unit_range", label,
           IF Has(value) THEN Val(value) ELSE 0, 0, path, si, ti))

check_emotion(emotion, label, path, si, ti) ==
  check_signed_unit(emotion.vad.valence, label, path \o <<"vad", "valence">>, si, ti)
  \o check_unit(emotion.vad.arousal, label, path \o <<"vad", "arousal">>, si, ti)
  \o check_unit(emotion.vad.dominance, label, path \o <<"vad", "dominance">>, si, ti)
  \o check_unit(emotion.confidence, label, path \o <<"confidence">>, si, ti)

check_voice_quality(vq, label, path, si, ti) ==
  check_unit(vq.creak, label, path \o <<"creak">>, si, ti)
  \o check_unit(vq.breathiness, label, path \o <<"breathiness">>, si, ti)
  \o check_unit(vq.nasal, label, path \o <<"nasal">>, si, ti)
  \o check_unit(vq.tension, label, path \o <<"tension">>, si, ti)
  \o check_unit(vq.smile, label, path \o <<"smile">>, si, ti)

DefaultsRangeErrors(d) ==
  LET defaults_style == d.defaults.style
  IN  (IF Has(defaults_style.emotion)
       THEN check_emotion(Val(defaults_style.emotion), "defaults",
                          <<"style", "emotion">>, 0, 0)
       ELSE <<>>)
      \o (IF Has(defaults_style.voice_quality)
          THEN check_voice_quality(Val(defaults_style.voice_quality), "defaults",
                                   <<"style", "voice_quality">>, 0, 0)
          ELSE <<>>)

\* tok.get('id', f'token[{j}]'): the position is the finding's tok field
TokenRangeErrors(tok, si, ti) ==
  LET tok_id == IF Has(tok.id) THEN Val(tok.id) ELSE "token[j]"
      tok_tracks == tok.tracks
  IN  (IF Has(tok_tracks.emotion)
       THEN check_emotion(Val(tok_tracks.emotion), tok_id,
                          <<"tracks", "emotion">>, si, ti)
       ELSE <<>>)
      \o (IF Has(tok_tracks.voice_quality)
          THEN check_voice_quality(Val(tok_tracks.voice_quality), tok_id,
                                   <<"tracks", "voice_quality">>, si, ti)
          ELSE <<>>)
      \o (IF Has(tok_tracks.tone)
          THEN check_unit(Val(tok_tracks.tone).confidence, tok_id,
                          <<"tracks", "tone", "confidence">>, si, ti)
          ELSE <<>>)

\* seg.get('id', f'segment[{i}]'): the position is the finding's seg field
SegmentRangeErrors(seg, si) ==
  LET seg_id == IF Has(seg.id) THEN Val(seg.id) ELSE "segment[i]"
      tracks == seg.tracks
  IN  (IF Has(tracks.emotion)
       THEN check_emotion(Val(tracks.emotion), seg_id,
                          <<"tracks", "emotion">>, si, 0)
       ELSE <<>>)
      \o (IF Has(tracks.voice_quality)
          THEN check_voice_quality(Val(tracks.voice_quality), seg_id,
                                   <<"tracks", "voice_quality">>, si, 0)
          ELSE <<>>)
      \o (IF Has(tracks.delivery)
          THEN check_unit(Val(tracks.delivery).clarity, seg_id,
                          <<"tracks", "delivery", "clarity">>, si, 0)
          ELSE <<>>)
      \o Flatten([j \in 1..Len(seg.tokens) |->
                    TokenRangeErrors(seg.tokens[j], si, j)])

RangeErrors(d) ==
  DefaultsRangeErrors(d)
  \o Flatten([i \in 1..Len(Segs(d)) |-> SegmentRangeErrors(Segs(d)[i], i)])

\* ---------------------------------------- _validate_tonal_requirements
\* doc.get('defaults', {}).get('language', '')
DefaultLang(d) ==
  IF Has(d.defaults.language) THEN Val(d.defaults.language) ELSE <<>>

\* seg.get('language', default_lang)
SegLang(seg, default_lang) ==
  IF Has(seg.language) THEN Val(seg.language) ELSE default_lang

IsTonal(lang) == LangPrefix(lang) \in tonal_langs

\* 'system' in seg.get('tracks', {}).get('tone', {})
HasToneSystem(seg) == Has(seg.tracks.tone) /\ Val(seg.tracks.tone).system

\* tok.get('kind', 'word')
TokKind(tok) == IF Has(tok.kind) THEN Val(tok.kind) ELSE "word"

\* 'lexical' in tok.get('tracks', {}).get('tone', {})
HasLexicalTone(tok) == Has(tok.tracks.tone) /\ Val(tok.tracks.tone).lexical

TokenTonalWarnings(tok, si, ti) ==
  IF TokKind(tok) \in {"word", "morpheme", "char"}
  THEN When(~HasLexicalTone(tok),
            Msg("token_no_tone_lexical", IdOrUnknown(tok.id), 0, 0, <<>>, si, ti))
  ELSE <<>>

SegmentTonalWarnings(seg, default_lang, si) ==
  LET lang == SegLang(seg, default_lang)
  IN  IF IsTonal(lang)
      THEN When(~HasToneSystem(seg),
                Msg("segment_no_tone_system", IdOrUnknown(seg.id), 0, 0, lang, si, 0))
           \o Flatten([j \in 1..Len(seg.tokens) |->
                         TokenTonalWarnings(seg.tokens[j], si, j)])
      ELSE <<>>

TonalWarnings(d) ==
  Flatten([i \in 1..Len(Segs(d)) |->
             SegmentTonalWarnings(Segs(d)[i], DefaultLang(d), i)])

\* ----------------------------------------------------- _detect_profile
\* any(k in tracks for k in ['emotion', 'prosody', 'delivery', 'voice_quality'])
SegExpressive(seg) ==
  \/ Has(seg.tracks.emotion)
  \/ seg.tracks.prosody
  \/ Has(seg.tracks.delivery)
  \/ Has(seg.tracks.voice_quality)

SegTonal(seg, default_lang) ==
  IsTonal(SegLang(seg, default_lang)) /\ HasToneSystem(seg)

RECURSIVE ProfileFlags(_, _, _, _, _)
ProfileFlags(segs, i, default_lang, has_expressive, has_tonal) ==
  IF i > Len(segs)
  THEN [has_expressive |-> has_expressive, has_tonal |-> has_tonal]
  ELSE ProfileFlags(segs, i + 1, default_lang,
                    IF SegExpressive(segs[i]) THEN TRUE ELSE has_expressive,
                    IF SegTonal(segs[i], default_lang) THEN TRUE ELSE has_tonal)

\* (variant: a tonal segment alone makes the document PG-Tonal)
ClassifyProfileTonalAlone(has_tonal, has_expressive) ==
  IF has_tonal THEN "PG-Tonal (includes PG-Expressive, PG-Core)"
  ELSE IF has_expressive THEN "PG-Expressive (includes PG-Core)"
  ELSE "PG-Core"

ClassifyProfile(has_tonal, has_expressive) ==
  IF has_tonal /\ has_expressive
  THEN "PG-Tonal (includes PG-Expressive, PG-Core)"
  ELSE IF has_expressive THEN "PG-Expressive (includes PG-Core)"
  ELSE "PG-Core"

DetectedProfile(d) ==
  LET f == ProfileFlags(Segs(d), 1, DefaultLang(d), FALSE, FALSE)
  IN  ClassifyProfile(f.has_tonal, f.has_expressive)

\* declared = doc.get('meta', {}).get('profile'); "if declared:" is truthiness
DeclaredInfo(d) ==
  When(Truthy(d.meta_profile),
       Msg("declared_profile",
           IF Has(d.meta_profile) THEN Val(d.meta_profile) ELSE "",
           0, 0, <<>>, 0, 0))

\* ============================================================ the run
VARIABLES
  pc,         \* where the command-line run is
  env,        \* what the run finds outside the document (file, loader, schema)
  doc,        \* the value load_document returns
  errors,     \* ValidationResult.errors
  warnings,   \* ValidationResult.warnings
  info,       \* ValidationResult.info
  profile,    \* ValidationResult.profile
  returned,   \* validate has returned its result to main
  exit_code   \* the status main passed to sys.exit

vars == <<pc, env, doc, errors, warnings, info, profile, returned, exit_code>>

is_valid == Len(errors) = 0

\* The findings of the external schema validator: env.schema_findings
\* errors from iter_errors, or the one error of the except clause.
SchemaErrors(e) ==
  IF e.schema_raises THEN <<PlainMsg("schema_validation_error")>>
  ELSE [k \in 1..e.schema_findings |-> Msg("schema", "", k, 0, <<>>, 0, 0)]

\* ------------------------------------------------------------- main()
MainFileNotFound ==
  /\ pc = "main"
  /\ ~env.file_exists
  /\ exit_code' = Some(1)
  /\ pc' = "exited"
  /\ UNCHANGED <<env, doc, errors, warnings, info, profile, returned>>

MainLoadDocument ==
  /\ pc = "main"
  /\ env.file_exists
  /\ env.load_ok
  /\ pc' = "validate"
  /\ UNCHANGED <<env, doc, errors, warnings, info, profile, returned, exit_code>>

MainLoadRaises ==
  /\ pc = "main"
  /\ env.file_exists
  /\ ~env.load_ok
  /\ pc' = "except"
  /\ UNCHANGED <<env, doc, errors, warnings, info, profile, returned, exit_code>>

\* ----------------------------------------- ProsographValidator.validate
ValidateSchema ==
  /\ pc = "validate"
  /\ errors' = IF env.has_schema /\ env.has_jsonschema
               THEN add_error(<<>>, SchemaErrors(env)) ELSE <<>>
  /\ warnings' = IF ~(env.has_schema /\ env.has_jsonschema) /\ ~env.has_jsonschema
                 THEN add_warning(<<>>, <<PlainMsg("jsonschema_not_installed")>>)
                 ELSE <<>>
  /\ info' = <<>>
  /\ profile' = None
  /\ pc' = "required"
  /\ UNCHANGED <<env, doc, returned, exit_code>>

\* 'prosograph' not in None raises TypeError; a number has no startswith
RequiredRaises(d) == d.kind = "null" \/ d.prosograph.kind = "num"

ValidateRequiredFields ==
  /\ pc = "required"
  /\ ~RequiredRaises(doc)
  /\ errors' = add_error(errors, RequiredErrors(doc))
  /\ pc' = "temporal"
  /\ UNCHANGED <<env, doc, warnings, info, profile, returned, exit_code>>

ValidateRequiredFieldsRaises ==
  /\ pc = "required"
  /\ RequiredRaises(doc)
  /\ pc' = "except"
  /\ UNCHANGED <<env, doc, errors, warnings, info, profile, returned, exit_code>>

\* a list has no get
TemporalRaises(d) == d.kind # "map"

ValidateTemporalConstraints ==
  /\ pc = "temporal"
  /\ ~TemporalRaises(doc)
  /\ errors' = add_error(errors, TemporalErrors(doc))
  /\ pc' = "ids"
  /\ UNCHANGED <<env, doc, warnings, info, profile, returned, exit_code>>

ValidateTemporalConstraintsRaises ==
  /\ pc = "temporal"
  /\ TemporalRaises(doc)
  /\ pc' = "except"
  /\ UNCHANGED <<env, doc, errors, warnings, info, profile, returned, exit_code>>

ValidateIdUniqueness ==
  /\ pc = "ids"
  /\ errors' = add_error(errors, IdErrors(doc))
  /\ pc' = "references"
  /\ UNCHANGED <<env, doc, warnings, info, profile, returned, exit_code>>

ValidateReferences ==
  /\ pc = "references"
  /\ errors' = add_error(errors, ReferenceErrors(doc))
  /\ pc' = "ranges"
  /\ UNCHANGED <<env, doc, warnings, info, profile, returned, exit_code>>

ValidateRanges ==
  /\ pc = "ranges"
  /\ errors' = add_error(errors, RangeErrors(doc))
  /\ pc' = "tonal"
  /\ UNCHANGED <<env, doc, warnings, info, profile, returned, exit_code>>

ValidateTonalRequirements ==
  /\ pc = "tonal"
  /\ warnings' = add_warning(warnings, TonalWarnings(doc))
  /\ pc' = "profile"
  /\ UNCHANGED <<env, doc, errors, info, profile, returned, exit_code>>

DetectProfile ==
  /\ pc = "profile"
  /\ profile' = Some(DetectedProfile(doc))
  /\ info' = add_info(info, DeclaredInfo(doc))
  /\ pc' = "return"
  /\ UNCHANGED <<env, doc, errors, warnings, returned, exit_code>>

ValidateReturn ==
  /\ pc = "return"
  /\ returned' = TRUE
  /\ pc' = "report"
  /\ UNCHANGED <<env, doc, errors, warnings, info, profile, exit_code>>

\* sys.exit(0 if result.is_valid else 1)
MainExit ==
  /\ pc = "report"
  /\ exit_code' = Some(IF is_valid THEN 0 ELSE 1)
  /\ pc' = "exited"
  /\ UNCHANGED <<env, doc, errors, warnings, info, profile, returned>>

\* except Exception: sys.exit(2)
MainExcept ==
  /\ pc = "except"
  /\ exit_code' = Some(2)
  /\ pc' = "exited"
  /\ UNCHANGED <<env, doc, errors, warnings, info, profile, returned>>

Next ==
  \/ MainFileNotFound
  \/ MainLoadDocument
  \/ MainLoadRaises
  \/ ValidateSchema
  \/ ValidateRequiredFields
  \/ ValidateRequiredFieldsRaises
  \/ ValidateTemporalConstraints
  \/ ValidateTemporalConstraintsRaises
  \/ ValidateIdUniqueness
  \/ ValidateReferences
  \/ ValidateRanges
  \/ ValidateTonalRequirements
  \/ DetectProfile
  \/ ValidateReturn
  \/ MainExit
  \/ MainExcept

\* ====================================================== the documents
\* The documents and environments the runs start from.  Each family varies
\* the keys one pass reads and leaves the rest of the document valid.
SeqsUpTo(S, n) == UNION {[1..k -> S] : k \in 0..n}
SeqsFromTo(S, m, n) == UNION {[1..k -> S] : k \in m..n}

SegNames == <<"s1", "s2", "s3", "s4">>
TokNames == <<"k1", "k2", "k3", "k4">>

TimeOpt == {None} \cup {Some(t) : t \in 0..MaxT}
SegT0Opt == {None} \cup {Some(t) : t \in (-1)..MaxT}
DurationOpt == {None} \cup {Some(t) : t \in 0..MaxT}

OkTok(name) == MkTok(Some(name), Some(0), Some(1))
OkSeg(name, toks) == MkSeg(Some(name), Some(0), Some(1), toks)
OkDoc(segs) == MkDoc(Some(1), Some(segs))

\* --- the scenarios of the specification's section 8
Scenario1 ==
  MkDoc(Some(10), Some(<<MkSeg(Some("s1"), Some(0), Some(5),
                                 <<MkTok(Some("k1"), Some(0), Some(4))>>)>>))
Scenario2 ==
  MkDoc(Some(10), Some(<<MkSeg(Some("s1"), Some(0), Some(5),
                                 <<MkTok(Some("k1"), Some(0), Some(6))>>)>>))
Scenario3 ==
  MkDoc(Some(10), Some(<<[MkSeg(Some("s1"), Some(0), Some(5),
                                <<[MkTok(Some("k1"), Some(0), Some(4))
                                     EXCEPT !.kind = Some("word")]>>)
                            EXCEPT !.language = Some(<<"z", "h">>)]>>))
MkSpan(kind, token_ids) == [span |-> [kind |-> kind, token_ids |-> token_ids]]
WithEmphasis(seg, emphasis) ==
  [seg EXCEPT !.tracks.delivery = Some([clarity |-> None, emphasis |-> emphasis])]
Scenario4 ==
  MkDoc(Some(10), Some(<<WithEmphasis(
      MkSeg(Some("s1"), Some(0), Some(5), <<MkTok(Some("k1"), Some(0), Some(4))>>),
      <<MkSpan("dict", Some(<<"tok-99">>))>>)>>))

\* --- values that are not a map of the expected shape
ListDoc == [MkDoc(None, None) EXCEPT !.kind = "list",
              !.prosograph = [kind |-> "absent", s |-> <<>>], !.audio = None]
NullDoc == [ListDoc EXCEPT !.kind = "null"]
NumVersionDoc == [Scenario1 EXCEPT !.prosograph = [kind |-> "num", s |-> <<>>]]

\* a tonal, expressive document with one temporal error and a declared profile
MixedDoc ==
  [MkDoc(Some(10), Some(<<[MkSeg(Some("s1"), Some(0), Some(5),
                                 <<MkTok(Some("k1"), Some(0), Some(6))>>)
                             EXCEPT !.language = Some(<<"z", "h">>),
                                    !.tracks.tone = Some([system |-> TRUE]),
                                    !.tracks.prosody = TRUE]>>))
     EXCEPT !.meta_profile = Some("PG-Core")]

CliDocs == {Scenario1, Scenario2, Scenario3, Scenario4, MixedDoc,
            ListDoc, NullDoc, NumVersionDoc}

DefaultEnv ==
  [file_exists |-> TRUE, load_ok |-> TRUE, has_schema |-> FALSE,
   has_jsonschema |-> TRUE, schema_findings |-> 0, schema_raises |-> FALSE]

Envs ==
  [file_exists : BOOLEAN, load_ok : BOOLEAN, has_schema : BOOLEAN,
   has_jsonschema : BOOLEAN, schema_findings : 0..MaxSchemaErrs,
   schema_raises : BOOLEAN]

\* --- temporal: one segment and one token over every combination of times
TemporalDeepDocs ==
  {MkDoc(dur, Some(<<MkSeg(Some("s1"), s0, s1, <<MkTok(Some("k1"), k0, k1)>>)>>)) :
     dur \in DurationOpt, s0 \in SegT0Opt, s1 \in TimeOpt,
     k0 \in TimeOpt, k1 \in TimeOpt}

\* --- temporal: several segments, several tokens, a few shapes of each
TemporalTokShapes ==
  {MkTok(Some("k1"), Some(0), Some(1)), MkTok(Some("k2"), Some(1), Some(0)),
   MkTok(Some("k3"), None, Some(MaxT + 1))}
TemporalSegShapes ==
  {MkSeg(Some("s1"), Some(0), Some(1), toks) : toks \in SeqsUpTo(TemporalTokShapes, 1)}
  \cup {MkSeg(Some("s2"), None, Some(1), toks) : toks \in SeqsUpTo(TemporalTokShapes, 1)}
  \cup {MkSeg(Some("s3"), Some(0), None, <<>>), MkSeg(Some("s4"), Some(1), Some(1), <<>>)}
TemporalWideDocs ==
  {MkDoc(Some(1), Some(segs)) : segs \in SeqsUpTo(TemporalSegShapes, MaxSegs)}
  \cup {MkDoc(Some(1), Some(<<MkSeg(Some("s1"), s0, Some(1), toks)>>)) :
          s0 \in {None, Some(0)}, toks \in SeqsUpTo(TemporalTokShapes, MaxToks)}

TemporalDocs == TemporalDeepDocs \cup TemporalWideDocs

\* --- ids: absent, empty and repeated ids in both namespaces
IdOpt == {None, Some(""), Some("a"), Some("b")}

IdTokSeqs(n) == {[j \in 1..Len(ids) |-> MkTok(ids[j], Some(0), Some(1))] :
                   ids \in SeqsUpTo(IdOpt, n)}

\* segments without tokens, every combination of segment ids
IdSegDocs ==
  {OkDoc([i \in 1..Len(ids) |-> MkSeg(ids[i], Some(0), Some(1), <<>>)]) :
     ids \in SeqsFromTo(IdOpt, 1, MaxSegs)}
\* one segment, every combination of segment id and token ids
IdTokDocs ==
  {OkDoc(<<MkSeg(sid, Some(0), Some(1), toks)>>) :
     sid \in IdOpt, toks \in IdTokSeqs(MaxToks)}
\* one token in each segment, every combination of token ids
IdCrossDocs ==
  {OkDoc([i \in 1..Len(ids) |->
            MkSeg(Some(SegNames[i]), Some(0), Some(1),
                  <<MkTok(ids[i], Some(0), Some(1))>>)]) :
     ids \in SeqsFromTo(IdOpt, 1, MaxSegs)}

IdDocs == IdSegDocs \cup IdTokDocs \cup IdCrossDocs

\* --- references: a span in one of two segments, tokens in both
RefVals == {"", "a", "z"}
SpanShapes ==
  {MkSpan("absent", None), MkSpan("scalar", None), MkSpan("dict", None)}
  \cup {MkSpan("dict", Some(refs)) : refs \in SeqsUpTo(RefVals, MaxRefs)}
RefTokIds == {None, Some(""), Some("a")}
RefDocs ==
  {OkDoc(<<IF at = 1 THEN WithEmphasis(OkSeg("s1", t1), <<sp>>) ELSE OkSeg("s1", t1),
           IF at = 2 THEN WithEmphasis(OkSeg("s2", t2), <<sp>>) ELSE OkSeg("s2", t2)>>) :
     at \in 1..2, sp \in SpanShapes,
     t1 \in IdTokSeqs(1), t2 \in {<<MkTok(i, Some(0), Some(1))>> : i \in RefTokIds}}
  \cup {OkDoc(<<WithEmphasis(OkSeg("s1", <<OkTok("a")>>), sps)>>) :
          sps \in SeqsUpTo({MkSpan("dict", Some(<<"a">>)), MkSpan("dict", Some(<<"z", "z">>)),
                            MkSpan("scalar", None)}, MaxRefs)}

\* --- languages, tone tracks and token kinds
ZH == <<"z", "h">>
EN == <<"e", "n">>
LangVals ==
  {<<>>, ZH, EN, <<"Z", "H", "-", "H", "a", "n", "t">>, <<"t", "h", "-", "T", "H">>,
   <<"z", "h", "x">>, <<"e", "n", "-", "z", "h">>, <<"Y", "u", "e">>,
   <<"v", "i">>, <<"c", "m", "n", "-", "C", "N">>, <<"-", "z", "h">>}
LangOpt == {None} \cup {Some(l) : l \in LangVals}
DefaultLangOpt == {None, Some(<<>>), Some(ZH), Some(EN)}
SegToneOpt == {None, Some([system |-> FALSE]), Some([system |-> TRUE])}
TokToneOpt == {None, Some([lexical |-> FALSE, confidence |-> None]),
               Some([lexical |-> TRUE, confidence |-> None])}
KindOpt == {None, Some("word"), Some("morpheme"), Some("char"), Some("phone"),
            Some("pause"), Some("")}

WithLang(d, l) == [d EXCEPT !.defaults.language = l]
TonalSeg(name, lang, tone, toks) ==
  [OkSeg(name, toks) EXCEPT !.language = lang, !.tracks.tone = tone]
TonalTok(name, kind, tone) ==
  [OkTok(name) EXCEPT !.kind = kind, !.tracks.tone = tone]

\* one segment, one token, every combination
TonalDeepDocs ==
  {WithLang(OkDoc(<<TonalSeg("s1", sl, st, <<TonalTok("k1", kd, tt)>>)>>), dl) :
     dl \in DefaultLangOpt, sl \in LangOpt, st \in SegToneOpt,
     kd \in KindOpt, tt \in TokToneOpt}
\* several segments and tokens, a few shapes
TonalTokShapes ==
  {TonalTok("k1", None, None), TonalTok("k2", Some("phone"), None),
   TonalTok("k3", Some("char"), Some([lexical |-> TRUE, confidence |-> None]))}
TonalSegShapes ==
  {TonalSeg("s1", Some(ZH), None, <<>>),
   TonalSeg("s1", Some(ZH), None, <<TonalTok("k1", None, None)>>),
   TonalSeg("s2", Some(ZH), Some([system |-> TRUE]),
            <<TonalTok("k3", Some("char"), Some([lexical |-> TRUE, confidence |-> None]))>>),
   TonalSeg("s3", Some(EN), None, <<TonalTok("k1", None, None)>>),
   TonalSeg("s4", None, None, <<TonalTok("k1", None, None)>>),
   TonalSeg("s4", None, None, <<TonalTok("k2", Some("phone"), None)>>)}
TonalWideDocs ==
  {WithLang(OkDoc(segs), dl) :
     dl \in {None, Some(ZH)}, segs \in SeqsUpTo(TonalSegShapes, MaxSegs)}
  \cup {OkDoc(<<TonalSeg("s1", sl, None, toks)>>) :
          sl \in {Some(ZH), Some(EN)}, toks \in SeqsUpTo(TonalTokShapes, MaxToks)}

TonalDocs == TonalDeepDocs \cup TonalWideDocs

\* --- profile: expressive tracks, tonal segments, a declared profile
SomeEmotion == Some([vad |-> NoVad, confidence |-> None])
SomeDelivery == Some([clarity |-> None, emphasis |-> <<>>])
SomeVq == Some(NoVq)
ExprTracks ==
  {[NoSegTracks EXCEPT !.emotion = e, !.prosody = p, !.delivery = dv,
                       !.voice_quality = vq] :
     e \in {None, SomeEmotion}, p \in BOOLEAN, dv \in {None, SomeDelivery},
     vq \in {None, SomeVq}}
MetaOpt == {None, Some(""), Some("PG-Core"), Some("PG-Tonal")}
WithMeta(d, m) == [d EXCEPT !.meta_profile = m]

ProfileDeepDocs ==
  {WithMeta(WithLang(OkDoc(<<[OkSeg("s1", <<>>) EXCEPT
        !.language = sl, !.tracks = [tr EXCEPT !.tone = st]]>>), dl), m) :
     dl \in {None, Some(ZH)}, sl \in {None, Some(EN), Some(<<"T", "H">>)},
     st \in SegToneOpt, tr \in ExprTracks, m \in MetaOpt}
ProfileSeg(name, sl, st, p) ==
  [OkSeg(name, <<>>) EXCEPT !.language = sl, !.tracks.tone = st, !.tracks.prosody = p]
ProfileSegShapes ==
  {ProfileSeg("s1", Some(ZH), Some([system |-> TRUE]), FALSE),
   ProfileSeg("s2", Some(EN), None, TRUE),
   ProfileSeg("s3", None, Some([system |-> TRUE]), TRUE),
   ProfileSeg("s4", Some(ZH), Some([system |-> FALSE]), FALSE),
   ProfileSeg("s1", Some(EN), Some([system |-> TRUE]), FALSE)}
ProfileWideDocs ==
  {WithMeta(WithLang(OkDoc(segs), dl), m) :
     dl \in {None, Some(ZH)}, m \in {None, Some("PG-Core")},
     segs \in SeqsUpTo(ProfileSegShapes, MaxSegs)}
  \cup {WithMeta(MkDoc(Some(1), None), m) : m \in MetaOpt}
  \cup {WithMeta(Scenario2, m) : m \in MetaOpt}

ProfileDocs == ProfileDeepDocs \cup ProfileWideDocs

\* --- required fields
VersionVals ==
  {V10, <<"1">>, <<"1", ".">>, <<"1", "0", ".", "0">>, <<"2", ".", "0">>, <<>>,
   <<"1", "1">>, <<"0", ".", "1">>, <<"1", "-", "b">>, <<".", "1">>}
VersionOpt ==
  {[kind |-> "absent", s |-> <<>>]} \cup {[kind |-> "str", s |-> v] : v \in VersionVals}
AudioOpt ==
  {None} \cup {Some([uri |-> u, duration_s |-> dur]) :
                 u \in BOOLEAN, dur \in {None} \cup {Some(t) : t \in (-1)..MaxT}}
SegmentsOpt ==
  {None, Some(<<>>), Some(<<OkSeg("s1", <<>>)>>),
   Some(<<MkSeg(Some("s1"), Some(0), Some(MaxT + 1), <<>>)>>)}
RequiredDocs ==
  {[MkDoc(None, sg) EXCEPT !.prosograph = v, !.audio = au] :
     v \in VersionOpt, au \in AudioOpt, sg \in SegmentsOpt}

\* --- numeric ranges
RangeOpt == {None} \cup {Some(x) : x \in (-2)..2}
RangeEmotions ==
  {Some([vad |-> [valence |-> a, arousal |-> b, dominance |-> None],
         confidence |-> c]) : a \in RangeOpt, b \in RangeOpt, c \in RangeOpt}
  \cup {Some([vad |-> [NoVad EXCEPT !.dominance = a], confidence |-> None]) :
          a \in RangeOpt}
RangeVqs ==
  {Some([NoVq EXCEPT !.creak = a, !.smile = b]) : a \in RangeOpt, b \in RangeOpt}
  \cup {Some([NoVq EXCEPT !.breathiness = a, !.nasal = a, !.tension = a]) :
          a \in RangeOpt}
RangeDocs ==
  {[OkDoc(<<OkSeg("s1", <<OkTok("k1")>>)>>) EXCEPT !.defaults.style.emotion = e] :
     e \in RangeEmotions}
  \cup {[OkDoc(<<OkSeg("s1", <<OkTok("k1")>>)>>) EXCEPT !.defaults.style.voice_quality = q] :
          q \in RangeVqs}
  \cup {OkDoc(<<[OkSeg("s1", <<[OkTok("k1") EXCEPT !.tracks.voice_quality = q,
                    !.tracks.tone = Some([lexical |-> FALSE, confidence |-> c])]>>)
                  EXCEPT !.tracks.emotion = e,
                         !.tracks.delivery = Some([clarity |-> c, emphasis |-> <<>>])]>>) :
          e \in {None, Some([vad |-> [NoVad EXCEPT !.valence = Some(-2)],
                             confidence |-> None])},
          q \in {None, Some([NoVq EXCEPT !.nasal = Some(2)])}, c \in RangeOpt}
  \cup {OkDoc(<<[OkSeg("s1", <<[OkTok("k1") EXCEPT !.tracks.emotion = e]>>)
                  EXCEPT !.tracks.voice_quality = q]>>) :
          e \in {None, Some([vad |-> NoVad, confidence |-> Some(2)])}, q \in RangeVqs}

AllDocs ==
  CliDocs \cup TemporalDocs \cup IdDocs \cup RefDocs \cup TonalDocs
  \cup ProfileDocs \cup RequiredDocs \cup RangeDocs

Init0(Docs) ==
  /\ pc = "main"
  /\ \E d \in Docs, e \in Envs :
       /\ d \in CliDocs \/ e = DefaultEnv
       /\ doc = d
       /\ env = e
  /\ errors = <<>>
  /\ warnings = <<>>
  /\ info = <<>>
  /\ profile = None
  /\ returned = FALSE
  /\ exit_code = None

InitTemporal == Init0(CliDocs \cup TemporalDocs)
SpecTemporal == InitTemporal /\ [][Next]_vars

InitIds == Init0(CliDocs \cup IdDocs \cup RefDocs)
SpecIds == InitIds /\ [][Next]_vars

InitTonal == Init0(CliDocs \cup TonalDocs \cup ProfileDocs)
SpecTonal == InitTonal /\ [][Next]_vars

InitRequired == Init0(CliDocs \cup RequiredDocs)
SpecRequired == InitRequired /\ [][Next]_vars

Init == Init0(AllDocs)
Spec == Init /\ [][Next]_vars

\* ========================================================= properties
PcOrder == <<"main", "validate", "required", "temporal", "ids", "references",
             "ranges", "tonal", "profile", "return", "report">>
PcIndex(p) == CHOOSE i \in 1..Len(PcOrder) : PcOrder[i] = p

\* The step of validate that starts at label p has run, and the run is one
\* in which validate returns or is still under way.
Ran(p) ==
  \/ pc \in Range(PcOrder) /\ PcIndex(pc) > PcIndex(p)
  \/ pc = "exited" /\ returned

IsPrefix(a, b) == Len(a) <= Len(b) /\ SubSeq(b, 1, Len(a)) = a

\* the number of findings of a list with this kind, about this segment and token
CountAt(list, kind, si, ti) ==
  Cardinality({k \in 1..Len(list) :
                 list[k].kind = kind /\ list[k].seg = si /\ list[k].tok = ti})
\* the number of findings of a list with this kind, naming this id
CountNaming(list, kind, id) ==
  Cardinality({k \in 1..Len(list) : list[k].kind = kind /\ list[k].id = id})
CountKind(list, kind) ==
  Cardinality({k \in 1..Len(list) : list[k].kind = kind})
One(b) == IF b THEN 1 ELSE 0

SegIdx == 1..Len(Segs(doc))
TokIdx(i) == 1..Len(Segs(doc)[i].tokens)
TokPos == {p \in SegIdx \X (1..(MaxToks + 1)) : p[2] \in TokIdx(p[1])}

\* C1: the lists only grow at their end, a step that adds a warning or an
\* info note leaves is_valid as it was, is_valid is the emptiness of the
\* error list, and the profile is written once, by profile detection.
C1_Accumulator ==
  [][/\ IsPrefix(errors, errors')
     /\ IsPrefix(warnings, warnings')
     /\ IsPrefix(info, info')
     /\ (warnings' # warnings \/ info' # info) => (is_valid' <=> is_valid)
     /\ is_valid' <=> (errors' = <<>>)
     /\ profile' # profile => (profile = None /\ pc = "profile")]_vars

C1_Witness ==
  /\ pc = "report"
  /\ Len(errors) >= 1
  /\ Len(warnings) >= 2
  /\ Len(info) >= 1
  /\ profile # None

\* C2: the exit code is 0 exactly when validation completed without
\* errors, 1 exactly when it completed with errors, 2 exactly when the run
\* met an unrecoverable error (file not found, load failure, not a map).
C2_ExitCodes ==
  pc = "exited" =>
    /\ exit_code = Some(0) <=> (returned /\ errors = <<>>)
    /\ exit_code = Some(1) <=> (returned /\ errors # <<>>)
    /\ exit_code = Some(2) <=> ~returned

\* C3: after the temporal pass every token that has t0 and t1 has exactly
\* one error per violated clause of segment.t0 <= token.t0 < token.t1 <=
\* segment.t1 (a clause counts when the values it compares are present),
\* and scenario 2 has exactly one error, that of token t1 6 > segment t1 5.
C3_TokenNesting ==
  Ran("temporal") =>
    /\ \A p \in TokPos :
         LET seg == Segs(doc)[p[1]]
             tok == seg.tokens[p[2]]
         IN  (Has(tok.t0) /\ Has(tok.t1)) =>
               /\ CountAt(errors, "token_t0_lt_segment_t0", p[1], p[2])
                    = One(Has(seg.t0) /\ Val(tok.t0) < Val(seg.t0))
               /\ CountAt(errors, "token_t1_gt_segment_t1", p[1], p[2])
                    = One(Has(seg.t1) /\ Val(tok.t1) > Val(seg.t1))
               /\ CountAt(errors, "token_t1_le_t0", p[1], p[2])
                    = One(Val(tok.t1) <= Val(tok.t0))
    /\ doc = Scenario2 /\ env = DefaultEnv =>
         errors = <<Msg("token_t1_gt_segment_t1", "k1", 6, 5, <<>>, 1, 1)>>

\* C4: after the ID pass, every ID value with n occurrences in a namespace
\* has n-1 duplicate errors naming it, the two namespaces are separate and
\* the token one spans the document, and an entity has a missing-ID error
\* exactly when its id is absent.
C4_IdUniqueness ==
  Ran("ids") =>
    /\ \A i \in SegIdx :
         LET id == Segs(doc)[i].id
         IN  /\ CountAt(errors, "segment_missing_id", i, 0) = One(~Has(id))
             /\ Has(id) =>
                  CountNaming(errors, "duplicate_segment_id", Val(id))
                    = Cardinality({j \in SegIdx : Segs(doc)[j].id = id}) - 1
    /\ \A p \in TokPos :
         LET id == Segs(doc)[p[1]].tokens[p[2]].id
         IN  /\ CountAt(errors, "token_missing_id", p[1], p[2]) = One(~Has(id))
             /\ Has(id) =>
                  CountNaming(errors, "duplicate_token_id", Val(id))
                    = Cardinality({q \in TokPos :
                                     Segs(doc)[q[1]].tokens[q[2]].id = id}) - 1
    /\ CountKind(errors, "segment_missing_id") + CountKind(errors, "token_missing_id")
         = Cardinality({i \in SegIdx : ~Has(Segs(doc)[i].id)})
           + Cardinality({p \in TokPos : ~Has(Segs(doc)[p[1]].tokens[p[2]].id)})

\* the token ids of the document: an id is there when a token carries it
DocTokenIds ==
  {Val(Segs(doc)[p[1]].tokens[p[2]].id) :
     p \in {q \in TokPos : Has(Segs(doc)[q[1]].tokens[q[2]].id)}}

\* the token_ids entries of segment i: <<emphasis index, entry index>>
RefEntries(i) ==
  LET seg == Segs(doc)[i]
      em == IF Has(seg.tracks.delivery) THEN Val(seg.tracks.delivery).emphasis
            ELSE <<>>
  IN  {e \in (1..Len(em)) \X (1..(MaxRefs + 1)) :
         /\ em[e[1]].span.kind = "dict"
         /\ Has(em[e[1]].span.token_ids)
         /\ e[2] <= Len(Val(em[e[1]].span.token_ids))}
RefAt(i, e) ==
  Val(Val(Segs(doc)[i].tracks.delivery).emphasis[e[1]].span.token_ids)[e[2]]

\* C5: after the reference pass, the errors naming an ID in segment i are
\* as many as the token_ids entries of segment i that name it when no token
\* of the document carries that ID, and none otherwise; and the set of
\* token IDs the pass resolves against is the set the ID pass collected.
C5_References ==
  Ran("references") =>
    /\ \A i \in SegIdx :
         /\ \A e \in RefEntries(i) :
              Cardinality({k \in 1..Len(errors) :
                             /\ errors[k].kind = "dangling_emphasis_reference"
                             /\ errors[k].seg = i
                             /\ errors[k].id = RefAt(i, e)})
                = IF RefAt(i, e) \in DocTokenIds THEN 0
                  ELSE Cardinality({f \in RefEntries(i) : RefAt(i, f) = RefAt(i, e)})
         /\ CountAt(errors, "dangling_emphasis_reference", i, 0)
              = Cardinality({e \in RefEntries(i) : RefAt(i, e) \notin DocTokenIds})
    /\ ReferenceTokenIds(doc) = IdUniqueness(doc).token_ids

\* --- the claims' reading of languages and profiles, from the specification
\* The effective language of a segment: its own when present, else the default.
EffectiveLang(seg) ==
  IF Has(seg.language) THEN Val(seg.language)
  ELSE IF Has(doc.defaults.language) THEN Val(doc.defaults.language) ELSE <<>>

\* A tag whose part before the first '-' is, letter case aside, one of the five.
TonalTag(lang) ==
  \E t \in {<<"t","h">>, <<"z","h">>, <<"v","i">>, <<"y","u","e">>, <<"c","m","n">>} :
    /\ Len(lang) >= Len(t)
    /\ \A k \in 1..Len(t) :
         lang[k] = t[k] \/ \E u \in 1..Len(UpperCs) : lang[k] = UpperCs[u] /\ LowerCs[u] = t[k]
    /\ Len(lang) = Len(t) \/ lang[Len(t) + 1] = "-"

ToneSystemPresent(seg) == Has(seg.tracks.tone) /\ Val(seg.tracks.tone).system

ExpectedTier ==
  LET tonal == \E i \in SegIdx :
                 TonalTag(EffectiveLang(Segs(doc)[i])) /\ ToneSystemPresent(Segs(doc)[i])
      expressive == \E i \in SegIdx :
                      LET tr == Segs(doc)[i].tracks
                      IN  Has(tr.emotion) \/ tr.prosody \/ Has(tr.delivery)
                          \/ Has(tr.voice_quality)
  IN  IF tonal /\ expressive THEN "PG-Tonal"
      ELSE IF expressive THEN "PG-Expressive" ELSE "PG-Core"

\* the tier a profile label names
TierOf(label) ==
  CASE label = "PG-Tonal (includes PG-Expressive, PG-Core)" -> "PG-Tonal"
    [] label = "PG-Expressive (includes PG-Core)" -> "PG-Expressive"
    [] OTHER -> label

\* C6 as stated: once profile detection has run, the profile is the tier the
\* segments and defaults.language determine, whatever errors there are, and
\* a declared meta.profile of any value adds exactly one info note.
C6_AnyDeclaredValueNoted ==
  Ran("profile") =>
    /\ Has(profile)
    /\ TierOf(Val(profile)) = ExpectedTier
    /\ Len(info) = One(Has(doc.meta_profile))

\* C6 as amended: the same, with exactly one info note when the declared
\* meta.profile is a non-empty value and none when it is absent or empty.
C6_Profile ==
  Ran("profile") =>
    /\ Has(profile)
    /\ TierOf(Val(profile)) = ExpectedTier
    /\ Len(info) = One(Has(doc.meta_profile) /\ Val(doc.meta_profile) # "")
    /\ \A k \in 1..Len(info) :
         info[k].kind = "declared_profile" /\ info[k].id = Val(doc.meta_profile)

C6_Witness ==
  /\ pc = "report"
  /\ TierOf(Val(profile)) = "PG-Tonal"
  /\ errors # <<>>
  /\ Has(doc.meta_profile)
  /\ Len(info) = 1

\* C7: the tonal pass leaves the errors alone and appends warnings only:
\* one for each segment whose effective language is tonal and whose
\* tracks.tone.system is absent, one for each token of a tonal segment whose
\* kind (default word) is word, morpheme or char and whose tone.lexical is
\* absent, and no other; scenario 3 ends with two warnings and no error.
C7_TonalPass ==
  [][pc = "tonal" =>
       LET new == SubSeq(warnings', Len(warnings) + 1, Len(warnings'))
           tonalSeg(i) == TonalTag(EffectiveLang(Segs(doc)[i]))
           kindOf(tok) == IF Has(tok.kind) THEN Val(tok.kind) ELSE "word"
           tokDue(p) ==
             LET tok == Segs(doc)[p[1]].tokens[p[2]]
             IN  /\ tonalSeg(p[1])
                 /\ kindOf(tok) \in {"word", "morpheme", "char"}
                 /\ ~(Has(tok.tracks.tone) /\ Val(tok.tracks.tone).lexical)
       IN  /\ errors' = errors
           /\ is_valid' <=> is_valid
           /\ IsPrefix(warnings, warnings')
           /\ \A i \in SegIdx :
                CountAt(new, "segment_no_tone_system", i, 0)
                  = One(tonalSeg(i) /\ ~ToneSystemPresent(Segs(doc)[i]))
           /\ \A p \in TokPos :
                CountAt(new, "token_no_tone_lexical", p[1], p[2]) = One(tokDue(p))
           /\ Len(new) = Cardinality({i \in SegIdx :
                                        tonalSeg(i) /\ ~ToneSystemPresent(Segs(doc)[i])})
                         + Cardinality({p \in TokPos : tokDue(p)})
           /\ (doc = Scenario3 /\ env = DefaultEnv) =>
                (Len(warnings') = 2 /\ errors' = <<>>)]_vars

C7_Witness ==
  /\ pc = "profile"
  /\ doc = Scenario3
  /\ Len(warnings) = 2
  /\ errors = <<>>

\* --- the claims' reading of the version string
\* the part of the version before its first '.'
MajorSegment(s) ==
  LET dots == {i \in 1..Len(s) : s[i] = "."}
  IN  IF dots = {} THEN s
      ELSE SubSeq(s, 1, (CHOOSE i \in dots : \A j \in dots : i <= j) - 1)

\* The errors of the required-fields pass, given when the version is accepted.
RequiredAsClaimed(versionAccepted) ==
  LET v == doc.prosograph
      au == doc.audio
  IN  /\ CountKind(errors, "missing_prosograph") = One(v.kind = "absent")
      /\ CountKind(errors, "unsupported_version")
           = One(v.kind = "str" /\ ~versionAccepted)
      /\ CountKind(errors, "missing_audio") = One(~Has(au))
      /\ CountKind(errors, "missing_audio_uri") = One(Has(au) /\ ~Val(au).uri)
      /\ CountKind(errors, "missing_duration_s")
           = One(Has(au) /\ ~Has(Val(au).duration_s))
      /\ CountKind(errors, "duration_s_not_positive")
           = One(Has(au) /\ Has(Val(au).duration_s) /\ ~(Val(Val(au).duration_s) > 0))
      /\ CountKind(errors, "missing_segments") = One(~Has(doc.segments))

\* C8 as stated: after the required-fields pass each of its checks has its
\* error exactly when it fails, the version check failing when the version
\* is absent or its major segment is not "1".
C8_MajorSegmentOne ==
  Ran("required") => RequiredAsClaimed(MajorSegment(doc.prosograph.s) = <<"1">>)

\* C8 as amended: the same, the version check failing when the version is
\* absent or does not begin with the two characters "1.".
C8_RequiredFields ==
  Ran("required") =>
    RequiredAsClaimed(/\ Len(doc.prosograph.s) >= 2
                      /\ doc.prosograph.s[1] = "1"
                      /\ doc.prosograph.s[2] = ".")

C8_Witness ==
  /\ Ran("required")
  /\ CountKind(errors, "unsupported_version") = 1
  /\ CountKind(errors, "missing_audio_uri") = 1
  /\ CountKind(errors, "duration_s_not_positive") = 1
  /\ CountKind(errors, "missing_segments") = 1

\* C9: after the temporal pass a segment without t0 or t1 has one
\* missing-field error and no range error, a token without t0 or t1 (in a
\* segment that has both) has one missing-field error and no other, and
\* every token that has t0 and t1 has the error of t1 <= t0 exactly when
\* t1 <= t0, whatever its segment or its siblings lack.
C9_Propagation ==
  Ran("temporal") =>
    /\ \A i \in SegIdx :
         LET seg == Segs(doc)[i]
         IN  (~Has(seg.t0) \/ ~Has(seg.t1)) =>
               /\ CountAt(errors, "segment_missing_t0", i, 0)
                    + CountAt(errors, "segment_missing_t1", i, 0) = 1
               /\ CountAt(errors, "segment_t0_negative", i, 0) = 0
               /\ CountAt(errors, "segment_t1_le_t0", i, 0) = 0
               /\ CountAt(errors, "segment_t1_gt_duration", i, 0) = 0
    /\ \A p \in TokPos :
         LET tok == Segs(doc)[p[1]].tokens[p[2]]
             seg == Segs(doc)[p[1]]
         IN  IF ~Has(tok.t0) \/ ~Has(tok.t1)
             THEN /\ (Has(seg.t0) /\ Has(seg.t1)) =>
                       CountAt(errors, "token_missing_t0_or_t1", p[1], p[2]) = 1
                  /\ CountAt(errors, "token_t0_lt_segment_t0", p[1], p[2]) = 0
                  /\ CountAt(errors, "token_t1_gt_segment_t1", p[1], p[2]) = 0
                  /\ CountAt(errors, "token_t1_le_t0", p[1], p[2]) = 0
             ELSE CountAt(errors, "token_t1_le_t0", p[1], p[2])
                    = One(Val(tok.t1) <= Val(tok.t0))

====
